---- MODULE Spec2Model ----
(***************************************************************************)
(* Model of comm.py: the adaptive rate limiter, the retrying HTTP fetch,   *)
(* the post paginator, the comment normaliser and the script body that     *)
(* sequences them (one Streamlit run of the script).                       *)
(***************************************************************************)
EXTENDS Integers, Sequences, FiniteSets, TLC

\* ---------------------------------------------------------------- bounds
\* Longest post list the modelled server holds for the user.
MaxPosts == 3
\* created_at values are 1..MaxTime (larger = more recent).
MaxTime == 2
\* num_posts values tried: 1..MaxNumPosts (the widget allows 1..2000).
MaxNumPosts == 3
\* Page size of the posts endpoint.  comm.py:65 uses 500; the model scales
\* it down so that runs of several pages stay enumerable.  Every offset in
\* the model is a multiple of this value, as it is of 500 in the code.
batch_size == 2
\* Longest comment list and longest replies list given to parse_comments on
\* its own (SpecNormalize).
MaxComments == 2
MaxReplies == 2

\* ------------------------------------------------------ program constants
\* stop_after_attempt(5)
stop_after_attempt == 5
\* "...comments?offset=0&limit=20"
comment_limit == 20
\* jitter=0.1 (seconds), in tenths of a second
jitter == 1
\* wait_exponential(min=4): seconds tenacity sleeps at least before a retry
backoff_min == 4
\* Exponent of the smallest positive IEEE-754 double, 2^-1074: Python floats
\* are doubles, and current_rate /= 2 is exact down to this value.
MinExp == -1074

VARIABLES
    user_id,          \* st.text_input value
    num_posts,        \* st.number_input value
    order,            \* st.radio value
    S,                \* the posts the server holds for the user, in API order
    env,              \* what time may do: [delays, jitters], in tenths of a second
    malformed,        \* some 2xx response of the run had an unexpected shape
    last_wait,        \* rate_limiter.wait() of the most recent attempt
    comments,         \* script: comments (the payload being normalised)
    current_rate,     \* rate_limiter.current_rate
    pc,               \* position of the script
    offset,           \* fetch_user_posts_generator: offset
    total_fetched,    \* fetch_user_posts_generator: total_fetched
    all_posts,        \* script: all_posts
    all_comments,     \* script: all_comments
    idx,              \* script: number of posts whose comment loop body completed
    attempt,          \* tenacity attempt_number of the most recent attempt
    in_call,          \* a fetch_with_rate_limit call is in progress (it will retry)
    last_outcome,     \* what the most recent HTTP attempt met
    rate0,            \* current_rate when the most recent fetch call started
    n429,             \* HTTP 429 responses met by the most recent fetch call
    page_requests,    \* offsets of the posts pages requested, in order
    comment_requests, \* uuids of the posts whose comments were requested, in order
    error,            \* exception the most recent failed fetch call raised to its caller
    posts_failed,     \* the generator's except branch ran (line 85-87)
    raised,           \* exception that escaped the script, "none" if none
    shown             \* st.* messages emitted by the latest step

vars == <<user_id, num_posts, order, S, env, malformed, last_wait, comments,
          current_rate, pc, offset, total_fetched,
          all_posts, all_comments, idx, attempt, in_call, last_outcome, rate0,
          n429, page_requests, comment_requests, error, posts_failed, raised,
          shown>>

Min(a, b) == IF a <= b THEN a ELSE b

\* ------------------------------------------------- floats (powers of two)
\* current_rate starts at 1 and is only ever doubled (capped at 2) or halved,
\* so it is 0.0 or a power of two: [m |-> 1, e |-> k] is 2^k, m = 0 is 0.0.
Zero == [m |-> 0, e |-> 0]
Pow2(k) == [m |-> 1, e |-> k]

FLeq(a, b) == a.m = 0 \/ (b.m = 1 /\ a.e <= b.e)
FLess(a, b) == FLeq(a, b) /\ a # b
FMin(a, b) == IF FLeq(a, b) THEN a ELSE b
\* x * 2 (no overflow: the result is capped by max_rate at every use)
FTimes2(a) == IF a.m = 0 THEN Zero ELSE Pow2(a.e + 1)
\* x / 2: 2^-1074 / 2 rounds to even, which is 0.0
FHalve(a) == IF a.m = 0 \/ a.e = MinExp THEN Zero ELSE Pow2(a.e - 1)

RECURSIVE HalveTimes(_, _)
HalveTimes(a, n) == IF n = 0 THEN a ELSE HalveTimes(FHalve(a), n - 1)

\* ---------------------------------------------------- AdaptiveRateLimiter
initial_rate == Pow2(0)
max_rate == Pow2(1)

increase_rate(r) == FMin(FTimes2(r), max_rate)

decrease_rate_Noop(r) == r

decrease_rate(r) == FHalve(r)

\* 1 / self.current_rate, in tenths of a second (current_rate is positive in
\* every state of a run, see RatePositive, so the division is defined)
Interval(r) == IF r.e >= 1 THEN 10 \div (2 ^ r.e) ELSE 10 * (2 ^ (0 - r.e))

Max(a, b) == IF a >= b THEN a ELSE b

WaitTime_MinForMax(r, since, j) ==
    (IF Interval(r) - since < 0 THEN Interval(r) - since ELSE 0) + j

\* wait(): the time slept, for time_since_last_call = since and the jitter drawn
WaitTime(r, since, j) == Max(0, Interval(r) - since) + j

NoWait == [first |-> TRUE, since |-> 0, interval |-> 0, slept |-> 0]

\* ------------------------------------------------------------ the server
Post(u, t) == [uuid |-> u, created_at |-> t]

\* Every list of at most MaxPosts posts: uuids are unique, created_at is any
\* value, so the API order is arbitrary with respect to created_at.
ServerPosts ==
    UNION { { [i \in 1..n |-> Post(i, f[i])] : f \in [1..n -> 1..MaxTime] }
            : n \in 0..MaxPosts }

\* GET /v1/users/{id}/posts?offset=o&limit=batch_size
Page(posts, o) == SubSeq(posts, o + 1, Min(Len(posts), o + batch_size))

NoReplies == [null |-> TRUE]
NullEntry == [null |-> TRUE]
Reply(t) == [null |-> FALSE, text |-> t]
Replies(s) == [null |-> FALSE, items |-> s]

\* Number of comments the server holds for a post: none, one, or one more
\* than the page size of the comments request.
HeldCount(post) ==
    CASE (post.uuid + post.created_at) % 3 = 2 -> 0
      [] (post.uuid + post.created_at) % 3 = 1 -> 1
      [] OTHER -> comment_limit + 1

\* The comments the server holds for a post; replies are absent, or a list
\* that may contain null entries.
HeldComments(post) ==
    [k \in 1..HeldCount(post) |->
        [text |-> <<post.uuid, k, 0>>,
         replies |-> CASE k % 3 = 1 -> NoReplies
                       [] k % 3 = 2 -> Replies(<<NullEntry, Reply(<<post.uuid, k, 2>>)>>)
                       [] OTHER -> Replies(<<Reply(<<post.uuid, k, 1>>)>>)]]

\* GET /v1/posts/{uuid}/comments?offset=0&limit=<limit>
CommentsResponse(post, limit) ==
    SubSeq(HeldComments(post), 1, Min(Len(HeldComments(post)), limit))

\* ------------------------------------------------- fetch_with_rate_limit
Failures == {"challenge", "http429", "http_error", "network", "bad_json"}
\* A 2xx response with a JSON body: of the expected shape ("ok"), a non-empty
\* object where the posts array is expected, a non-empty body without the
\* 'comments' array, or a body that is falsy in Python (null, {}, []).
OkShapes == {"ok", "ok_object", "ok_no_comments", "ok_falsy"}
Outcomes == OkShapes \cup Failures

\* Exception that leaves the function body for each outcome.  A network
\* error leaves `response` unbound, so the handler's response.status_code
\* raises UnboundLocalError in its place.
Raises(o) ==
    CASE o = "challenge" -> "CloudflareChallengeError"
      [] o = "http429" -> "HTTPError"
      [] o = "http_error" -> "HTTPError"
      [] o = "network" -> "UnboundLocalError"
      [] o = "bad_json" -> "JSONDecodeError"
      [] OTHER -> "none"

\* The HTTP or network error the attempt itself met (what scraper.get,
\* raise_for_status or response.json raised).
ErrorMet(o) ==
    CASE o = "challenge" -> "CloudflareChallengeError"
      [] o = "http429" -> "HTTPError"
      [] o = "http_error" -> "HTTPError"
      [] o = "network" -> "ConnectionError"
      [] o = "bad_json" -> "JSONDecodeError"
      [] OTHER -> "none"

\* The rate after the attempt: increase_rate runs before response.json().
RateAfter(o, r) ==
    CASE o \in OkShapes \cup {"bad_json"} -> increase_rate(r)
      [] o = "http429" -> decrease_rate(r)
      [] OTHER -> r

\* st.* messages of the attempt
AttemptMessages(o) ==
    CASE o = "challenge" -> <<"error: Cloudflare challenge detected">>
      [] o = "http429" -> <<"warning: Rate limited">>
      [] o \in {"http_error", "bad_json"} -> <<"error: Failed to fetch data">>
      [] OTHER -> <<>>

retry_if_exception_type_NoChallenge(exc) ==
    exc \in {"HTTPError", "UnboundLocalError", "JSONDecodeError"}

\* retry_if_exception_type((CloudflareChallengeError, Exception))
retry_if_exception_type(exc) ==
    exc \in {"CloudflareChallengeError", "HTTPError", "UnboundLocalError",
             "JSONDecodeError"}

ShouldRetry_OneMore(n, exc) == retry_if_exception_type(exc) /\ n <= stop_after_attempt

\* tenacity: retry unless the stop condition holds
ShouldRetry(n, exc) == retry_if_exception_type(exc) /\ n < stop_after_attempt

\* attempt_number of the attempt about to be made
ThisAttempt == IF in_call THEN attempt + 1 ELSE 1

\* No wait() has returned yet in this run: last_call is still 0.
FirstCall == attempt = 0

\* time_since_last_call seen by wait(): on the first call last_call is 0, so
\* it is the wall-clock time, beyond every interval; before a retry tenacity
\* has slept at least backoff_min seconds; d is the time the environment took
\* besides (the request, the caller's own work).
SinceLastCall(d) ==
    IF FirstCall THEN Interval(current_rate) + d
    ELSE d + (IF in_call THEN 10 * backoff_min ELSE 0)

\* rate_limiter.wait() at the head of the attempt (line 46)
Wait(d, j) ==
    last_wait' = [first |-> FirstCall,
                  since |-> SinceLastCall(d),
                  interval |-> Interval(current_rate),
                  slept |-> WaitTime(current_rate, SinceLastCall(d), j)]

\* One call of fetch_with_rate_limit's body: wait(), then the request and
\* the handlers, then tenacity's decision.
AttemptVars(o) ==
    /\ \E d \in env.delays, j \in env.jitters : Wait(d, j)
    /\ attempt' = ThisAttempt
    /\ last_outcome' = o
    /\ current_rate' = RateAfter(o, current_rate)
    /\ rate0' = IF in_call THEN rate0 ELSE current_rate
    /\ n429' = (IF in_call THEN n429 ELSE 0) + (IF o = "http429" THEN 1 ELSE 0)
    /\ in_call' = (o \notin OkShapes /\ ShouldRetry(ThisAttempt, Raises(o)))

\* ------------------------------------------------------- parse_comments
\* A row keeps the comment column (the reply marker and the text) and the
\* post link; the other columns are copied from the payload unchanged.
RECURSIVE ParseReplies_Reversed(_, _)
ParseReplies_Reversed(items, uuid) ==
    IF items = <<>> THEN <<>>
    ELSE ParseReplies_Reversed(Tail(items), uuid)
         \o (IF Head(items).null THEN <<>>
             ELSE <<[comment |-> [marker |-> TRUE, text |-> Head(items).text],
                     post_link |-> uuid]>>)

RECURSIVE ParseReplies(_, _)
ParseReplies(items, uuid) ==
    IF items = <<>> THEN <<>>
    ELSE (IF Head(items).null THEN <<>>
          ELSE <<[comment |-> [marker |-> TRUE, text |-> Head(items).text],
                  post_link |-> uuid]>>)
         \o ParseReplies(Tail(items), uuid)

RECURSIVE parse_comments(_, _)
parse_comments(raw, uuid) ==
    IF raw = <<>> THEN <<>>
    ELSE LET c == Head(raw)
             items == IF c.replies.null THEN <<>> ELSE c.replies.items
         IN <<[comment |-> [marker |-> FALSE, text |-> c.text], post_link |-> uuid]>>
            \o ParseReplies(items, uuid)
            \o parse_comments(Tail(raw), uuid)

\* ------------------------------------------------------- all_posts.sort
\* list.sort is stable, also with reverse=True: x goes before the first
\* element that must come strictly after it.
Before_Unstable(x, y, reverse) ==
    IF reverse THEN x.created_at >= y.created_at ELSE x.created_at < y.created_at

Before(x, y, reverse) ==
    IF reverse THEN x.created_at > y.created_at ELSE x.created_at < y.created_at

RECURSIVE Insert(_, _, _)
Insert(x, s, reverse) ==
    IF s = <<>> THEN <<x>>
    ELSE IF Before(x, Head(s), reverse) THEN <<x>> \o s
    ELSE <<Head(s)>> \o Insert(x, Tail(s), reverse)

RECURSIVE Sorted(_, _)
Sorted(s, reverse) ==
    IF s = <<>> THEN <<>>
    ELSE Insert(s[Len(s)], Sorted(SubSeq(s, 1, Len(s) - 1), reverse), reverse)

\* ------------------------------------------------------------------ Init
\* The state of the script and of the module-level rate limiter before the
\* first statement of the run.
InitProgram ==
    /\ malformed = FALSE
    /\ last_wait = NoWait
    /\ current_rate = initial_rate
    /\ pc = "start"
    /\ offset = 0
    /\ total_fetched = 0
    /\ all_posts = <<>>
    /\ all_comments = <<>>
    /\ idx = 0
    /\ attempt = 0
    /\ in_call = FALSE
    /\ last_outcome = "none"
    /\ rate0 = initial_rate
    /\ n429 = 0
    /\ page_requests = <<>>
    /\ comment_requests = <<>>
    /\ error = "none"
    /\ posts_failed = FALSE
    /\ raised = "none"
    /\ shown = <<>>

\* An environment in which requests and the caller's work take no time and
\* the jitter drawn is 0.
Instant == [delays |-> {0}, jitters |-> {0}]

Init ==
    /\ user_id \in {"", "u1"}
    /\ num_posts \in 1..MaxNumPosts
    /\ order \in {"Most Recent", "Oldest"}
    /\ S \in ServerPosts
    /\ env = Instant
    /\ comments = <<>>
    /\ InitProgram

\* --------------------------------------------------------------- actions
GateOpen_Always(u, n) == TRUE

\* line 142: if user_id and num_posts
GateOpen(u, n) == u # "" /\ n # 0

\* lines 138-146: the inputs are read and the run starts, or nothing is done
Gate ==
    /\ pc = "start"
    /\ pc' = IF GateOpen(user_id, num_posts) THEN "posts" ELSE "idle"
    /\ UNCHANGED <<user_id, num_posts, order, S, env, malformed, comments, last_wait,
                   current_rate, offset,
                   total_fetched, all_posts, all_comments, idx, attempt, in_call,
                   last_outcome, rate0, n429, page_requests, comment_requests,
                   error, posts_failed, raised, shown>>

Yielded_NoCap(data, fetched, limit) == data

\* Posts the generator yields from one page: the for loop returns once
\* total_fetched has reached the limit.
Yielded(data, fetched, limit) ==
    SubSeq(data, 1, Min(Len(data), limit - fetched))

NextOffset_Stuck(o) == o

\* line 84: offset += batch_size
NextOffset(o) == o + batch_size

\* Iterating a JSON object yields its keys: the one key of the object, a str.
\* (uuid and created_at are placeholders; a str has neither.)
StrItem == [uuid |-> 0, created_at |-> 0, str |-> "message"]

IsStr(item) == "str" \in DOMAIN item

MorePages_IgnoreShort(data, out) == data # <<>> /\ Len(out) = Len(data)

\* lines 72-82: the loop goes round again only if the page was not falsy, the
\* for loop ran to its end (no return at the limit) and the page was full.
MorePages(data, out) ==
    data # <<>> /\ Len(out) = Len(data) /\ Len(data) >= batch_size

\* One attempt of the page fetch of fetch_user_posts_generator returns the
\* payload data: it is yielded item by item into all_posts (lines 72-84,
\* 148-149).
PostsPayload(o, data) ==
    /\ pc = "posts"
    /\ AttemptVars(o)
    /\ malformed' = (malformed \/ o # "ok")
    /\ LET out == Yielded(data, total_fetched, num_posts)
       IN /\ all_posts' = all_posts \o out
          /\ total_fetched' = total_fetched + Len(out)
          /\ IF MorePages(data, out)
             THEN /\ offset' = NextOffset(offset)
                  /\ pc' = IF total_fetched' < num_posts THEN "posts" ELSE "sort"
             ELSE /\ offset' = offset
                  /\ pc' = "sort"
    /\ page_requests' = IF in_call THEN page_requests ELSE Append(page_requests, offset)
    /\ shown' = <<>>
    /\ UNCHANGED <<user_id, num_posts, order, S, env, comments, all_comments, idx,
                   comment_requests, error, posts_failed, raised>>

\* The page is the array the server holds at this offset.
PostsPage == PostsPayload("ok", Page(S, offset))

\* The page is a JSON object instead of an array.
PostsObject == PostsPayload("ok_object", <<StrItem>>)

\* The page is null or an empty object: `if not data: break`.
PostsFalsy == PostsPayload("ok_falsy", <<>>)

PostsFail_Propagates(o) ==
    /\ pc = "posts"
    /\ o \in Failures
    /\ AttemptVars(o)
    /\ page_requests' = IF in_call THEN page_requests ELSE Append(page_requests, offset)
    /\ shown' = AttemptMessages(o)
    /\ IF ShouldRetry(ThisAttempt, Raises(o))
       THEN /\ pc' = "posts"
            /\ UNCHANGED <<error, raised>>
       ELSE /\ pc' = "crashed"
            /\ error' = Raises(o)
            /\ raised' = Raises(o)
    /\ UNCHANGED <<user_id, num_posts, order, S, env, malformed, comments, offset, total_fetched, all_posts,
                   all_comments, idx, comment_requests, posts_failed>>

\* One attempt of the page fetch fails: tenacity retries, or re-raises the
\* last exception into the generator's except branch (lines 85-87).
PostsFail(o) ==
    /\ pc = "posts"
    /\ o \in Failures
    /\ AttemptVars(o)
    /\ page_requests' = IF in_call THEN page_requests ELSE Append(page_requests, offset)
    /\ IF ShouldRetry(ThisAttempt, Raises(o))
       THEN /\ pc' = "posts"
            /\ shown' = AttemptMessages(o)
            /\ UNCHANGED <<error, posts_failed>>
       ELSE /\ pc' = "sort"
            /\ error' = Raises(o)
            /\ posts_failed' = TRUE
            /\ shown' = AttemptMessages(o) \o <<"error: Error fetching posts">>
    /\ UNCHANGED <<user_id, num_posts, order, S, env, malformed, comments, offset, total_fetched, all_posts,
                   all_comments, idx, comment_requests, raised>>

\* lines 153-158: all_posts.sort(key=lambda x: x.get('created_at', ''),
\* reverse=(order == 'Most Recent')); a str item has no .get, so the key
\* function raises AttributeError and the list is left as it was.
Sort ==
    /\ pc = "sort"
    /\ IF \E i \in 1..Len(all_posts) : IsStr(all_posts[i])
       THEN /\ pc' = "crashed"
            /\ raised' = "AttributeError"
            /\ shown' = <<"write: Found n posts in total">>
            /\ UNCHANGED all_posts
       ELSE /\ all_posts' = Sorted(all_posts, order = "Most Recent")
            /\ pc' = IF Len(all_posts) > 0 THEN "comments" ELSE "report"
            /\ shown' = <<IF Len(all_posts) = 0 THEN "write: Found 0 posts in total"
                           ELSE "write: Found n posts in total",
                          "write: Analyzing posts">>
            /\ UNCHANGED raised
    /\ UNCHANGED <<user_id, num_posts, order, S, env, malformed, comments, last_wait,
                   current_rate, offset,
                   total_fetched, all_comments, idx, attempt, in_call,
                   last_outcome, rate0, n429, page_requests, comment_requests,
                   error, posts_failed>>

\* One attempt of fetch_post_comments(all_posts[idx + 1]) succeeds: the loop
\* body of lines 162-166 completes for this post.  (st.cache_data never hits
\* within a run: uuids are unique, so each post is fetched once.)
CommentsPage ==
    /\ pc = "comments"
    /\ AttemptVars("ok")
    /\ LET post == all_posts[idx + 1]
       IN /\ comments' = CommentsResponse(post, comment_limit)
          /\ all_comments' = all_comments \o parse_comments(comments', post.uuid)
    /\ idx' = idx + 1
    /\ pc' = IF idx' < Len(all_posts) THEN "comments" ELSE "report"
    /\ comment_requests' = IF in_call THEN comment_requests
                           ELSE Append(comment_requests, all_posts[idx + 1].uuid)
    /\ shown' = <<>>
    /\ UNCHANGED <<user_id, num_posts, order, S, env, malformed, offset, total_fetched, all_posts,
                   page_requests, error, posts_failed, raised>>

\* The comments response is null or an empty object: `if data` is false,
\* fetch_post_comments reports and returns [] (lines 99-101).
CommentsFalsy ==
    /\ pc = "comments"
    /\ AttemptVars("ok_falsy")
    /\ malformed' = TRUE
    /\ comments' = <<>>
    /\ all_comments' = all_comments \o parse_comments(comments', all_posts[idx + 1].uuid)
    /\ idx' = idx + 1
    /\ pc' = IF idx' < Len(all_posts) THEN "comments" ELSE "report"
    /\ comment_requests' = IF in_call THEN comment_requests
                           ELSE Append(comment_requests, all_posts[idx + 1].uuid)
    /\ shown' = <<"error: Failed to fetch comments for post">>
    /\ UNCHANGED <<user_id, num_posts, order, S, env, offset, total_fetched,
                   all_posts, page_requests, error, posts_failed, raised>>

\* The comments response is a non-empty body without 'comments':
\* data['comments'] raises KeyError (line 98), which nothing catches.
CommentsNoArray ==
    /\ pc = "comments"
    /\ AttemptVars("ok_no_comments")
    /\ malformed' = TRUE
    /\ pc' = "crashed"
    /\ raised' = "KeyError"
    /\ comment_requests' = IF in_call THEN comment_requests
                           ELSE Append(comment_requests, all_posts[idx + 1].uuid)
    /\ shown' = <<>>
    /\ UNCHANGED <<user_id, num_posts, order, S, env, comments, offset,
                   total_fetched, all_posts, all_comments, idx, page_requests,
                   error, posts_failed>>

\* One attempt of fetch_post_comments fails: tenacity retries, or re-raises;
\* neither fetch_post_comments nor the loop of lines 162-166 catches it.
CommentsFail(o) ==
    /\ pc = "comments"
    /\ o \in Failures
    /\ AttemptVars(o)
    /\ comment_requests' = IF in_call THEN comment_requests
                           ELSE Append(comment_requests, all_posts[idx + 1].uuid)
    /\ shown' = AttemptMessages(o)
    /\ IF ShouldRetry(ThisAttempt, Raises(o))
       THEN /\ pc' = "comments"
            /\ UNCHANGED <<error, raised>>
       ELSE /\ pc' = "crashed"
            /\ error' = Raises(o)
            /\ raised' = Raises(o)
    /\ UNCHANGED <<user_id, num_posts, order, S, env, malformed, comments, offset, total_fetched, all_posts,
                   all_comments, idx, page_requests, posts_failed>>

\* line 193
NoCommentsFound == "write: No comments found for this user's posts."

\* lines 168-193
Report ==
    /\ pc = "report"
    /\ pc' = "done"
    /\ shown' = IF all_comments # <<>> THEN <<"dataframe", "download_button">>
                ELSE <<NoCommentsFound>>
    /\ UNCHANGED <<user_id, num_posts, order, S, env, malformed, comments, last_wait,
                   current_rate, offset,
                   total_fetched, all_posts, all_comments, idx, attempt, in_call,
                   last_outcome, rate0, n429, page_requests, comment_requests,
                   error, posts_failed, raised>>

Next ==
    \/ Gate
    \/ PostsPage
    \/ PostsObject
    \/ PostsFalsy
    \/ \E o \in Failures : PostsFail(o)
    \/ Sort
    \/ CommentsPage
    \/ CommentsFalsy
    \/ CommentsNoArray
    \/ \E o \in Failures : CommentsFail(o)
    \/ Report

Spec == Init /\ [][Next]_vars

\* ------------------------------------------- the rate limiter on its own
\* AdaptiveRateLimiter() driven by any sequence of increase_rate and
\* decrease_rate calls; nothing else of the script runs.
InitLimiter ==
    /\ Init
    /\ user_id = ""
    /\ num_posts = 1
    /\ order = "Most Recent"
    /\ S = <<>>

IncreaseRate ==
    /\ current_rate' = increase_rate(current_rate)
    /\ UNCHANGED <<user_id, num_posts, order, S, env, malformed, comments, last_wait,
                   pc, offset, total_fetched,
                   all_posts, all_comments, idx, attempt, in_call, last_outcome,
                   rate0, n429, page_requests, comment_requests, error,
                   posts_failed, raised, shown>>

DecreaseRate ==
    /\ current_rate' = decrease_rate(current_rate)
    /\ UNCHANGED <<user_id, num_posts, order, S, env, malformed, comments, last_wait,
                   pc, offset, total_fetched,
                   all_posts, all_comments, idx, attempt, in_call, last_outcome,
                   rate0, n429, page_requests, comment_requests, error,
                   posts_failed, raised, shown>>

NextLimiter == IncreaseRate \/ DecreaseRate

SpecLimiter == InitLimiter /\ [][NextLimiter]_vars

\* ------------------------------------------------- the run, with a clock
\* The same script, for a user with at most one post, in an environment
\* where time passes: between a wait() and the next one the request and the
\* caller take 0, 0.3 or 2.5 s (besides tenacity's sleep before a retry),
\* and the jitter drawn is anything from 0 to 0.1 s.
Timed == [delays |-> {0, 3, 25}, jitters |-> 0..jitter]

InitTimed ==
    /\ user_id = "u1"
    /\ num_posts = 1
    /\ order = "Most Recent"
    /\ S \in {posts \in ServerPosts : Len(posts) <= 1}
    /\ env = Timed
    /\ comments = <<>>
    /\ InitProgram

SpecTimed == InitTimed /\ [][Next]_vars

\* ------------------------------------------- parse_comments on its own
\* A replies field: absent (null), or a list of entries each null or a reply.
ReplyShapes ==
    {[null |-> TRUE, nulls |-> <<>>]} \cup
    {[null |-> FALSE, nulls |-> b] :
        b \in UNION {[1..m -> BOOLEAN] : m \in 0..MaxReplies}}

\* Comment k of the payload, with the given replies field; every comment and
\* every reply has a text of its own.
RawComment(k, shape) ==
    [text |-> <<1, k, 0>>,
     replies |-> IF shape.null THEN NoReplies
                 ELSE Replies([j \in 1..Len(shape.nulls) |->
                                 IF shape.nulls[j] THEN NullEntry
                                 ELSE Reply(<<1, k, j>>)])]

\* Every comments payload of at most MaxComments comments.
CommentLists ==
    UNION {{[k \in 1..n |-> RawComment(k, f[k])] : f \in [1..n -> ReplyShapes]}
           : n \in 0..MaxComments}

InitNormalize ==
    /\ user_id = "u1"
    /\ num_posts = 1
    /\ order = "Most Recent"
    /\ S = <<Post(1, 1)>>
    /\ env = Instant
    /\ comments \in CommentLists
    /\ InitProgram

\* parsed_comments = parse_comments(comments, post['uuid'], post['title']);
\* all_comments.extend(parsed_comments)   (lines 164-165)
Normalize ==
    /\ pc = "start"
    /\ pc' = "normalized"
    /\ all_comments' = all_comments \o parse_comments(comments, S[1].uuid)
    /\ UNCHANGED <<user_id, num_posts, order, S, env, malformed, comments, last_wait,
                   current_rate, offset, total_fetched, all_posts, idx, attempt,
                   in_call, last_outcome, rate0, n429, page_requests,
                   comment_requests, error, posts_failed, raised, shown>>

NextNormalize == Normalize

SpecNormalize == InitNormalize /\ [][NextNormalize]_vars

TypeOK ==
    /\ pc \in {"start", "idle", "posts", "sort", "comments", "report", "done", "crashed"}
    /\ attempt \in 0..stop_after_attempt
    /\ last_outcome \in Outcomes \cup {"none"}

\* In a run of the script (Spec) the rate never reaches 0.0, so wait() never
\* divides by zero.
RatePositive == FLess(Zero, current_rate)

\* ======================================================================
\* Properties
\* ======================================================================
Uuids(posts) == {posts[i].uuid : i \in 1..Len(posts)}
Queried == {comment_requests[k] : k \in 1..Len(comment_requests)}
RunEnded == pc \in {"report", "done", "crashed"}

C2_CommentFailureNonFatal ==
    (RunEnded /\ ~malformed) =>
        /\ raised = "none"
        /\ comment_requests = [i \in 1..Len(all_posts) |-> all_posts[i].uuid]

\* Number of the user's posts that come before S[i] in the requested order.
NumAhead(i) ==
    Cardinality({j \in 1..Len(S) :
        IF order = "Most Recent" THEN S[j].created_at > S[i].created_at
        ELSE S[j].created_at < S[i].created_at})

DistinctTimes ==
    \A i, j \in 1..Len(S) : i # j => S[i].created_at # S[j].created_at

\* C3: when the user has more than num_posts posts (of distinct created_at)
\* and every fetch succeeded, the posts queried for comments are exactly the
\* num_posts most recent (resp. oldest) posts of the user.
C3_MostRecentQueried ==
    (pc \in {"report", "done"} /\ ~posts_failed /\ ~malformed /\ DistinctTimes
        /\ Len(S) > num_posts) =>
        Queried = {S[i].uuid : i \in {k \in 1..Len(S) : NumAhead(k) < num_posts}}

\* C4: the paginator never yields more than num_posts posts and comments are
\* never requested for more than num_posts posts.
C4_AtMostNumPosts ==
    /\ total_fetched <= num_posts
    /\ Len(all_posts) <= num_posts
    /\ Len(comment_requests) <= num_posts

C4_Witness ==
    pc = "done" /\ Len(S) > num_posts /\ Len(comment_requests) = num_posts

\* C5: the pages are requested at offsets 0, batch_size, 2*batch_size, ...,
\* the posts yielded so far are a prefix of the server's sequence, and when
\* pagination ends without a failed fetch they are exactly its first
\* min(num_posts, |S|) posts in server order.
C5_PaginationIsPrefix ==
    /\ \A k \in 1..Len(page_requests) : page_requests[k] = (k - 1) * batch_size
    /\ pc = "posts" => all_posts = SubSeq(S, 1, total_fetched)
    /\ (pc = "sort" /\ ~posts_failed /\ ~malformed) =>
           all_posts = SubSeq(S, 1, Min(num_posts, Len(S)))

C5_Witness ==
    /\ pc = "sort" /\ ~posts_failed /\ ~malformed
    /\ Len(page_requests) >= 2
    /\ Len(all_posts) > batch_size

\* A fetch call of the paginator has failed (no comment request was made
\* yet, so the failed call is a page fetch).
PageFetchFailed == error # "none" /\ ~in_call /\ comment_requests = <<>>

\* C6: when a page fetch fails, the failure is reported and caught (it never
\* escapes the paginator), no further page is requested for the rest of the
\* run, and the posts of the pages before it are all kept.
C6_PartialResultKept ==
    /\ PageFetchFailed => (posts_failed /\ raised = "none" /\ pc # "crashed")
    /\ posts_failed =>
        /\ Len(page_requests) = (offset \div batch_size) + 1
        /\ page_requests[Len(page_requests)] = offset
        /\ Len(all_posts) = offset
        /\ Uuids(all_posts) = Uuids(SubSeq(S, 1, offset))
        /\ pc = "sort" => all_posts = SubSeq(S, 1, offset)

C6_Witness ==
    /\ posts_failed /\ pc = "done"
    /\ offset >= batch_size
    /\ Len(all_posts) = offset

\* C7: the rate stays in (0, max_rate] under any sequence of increase_rate
\* and decrease_rate calls.
C7_RateInBounds ==
    FLess(Zero, current_rate) /\ FLeq(current_rate, max_rate)

\* The most recent fetch call was a comment fetch that met HTTP 429 on its
\* first three attempts and succeeded on the fourth.
ThreeTimes429ThenOk ==
    idx >= 1 /\ last_outcome = "ok" /\ attempt = 4 /\ n429 = 3

\* C8: while a call has met only 429s the rate has been halved once per 429;
\* after three 429s and a success on a comment fetch the payload's rows are
\* in the result, the run goes on, and the rate in force is lower than the
\* rate before the first 429.
C8_RateLoweredAfter429s ==
    /\ (in_call /\ n429 = attempt) => current_rate = HalveTimes(rate0, n429)
    /\ ThreeTimes429ThenOk =>
        /\ current_rate = increase_rate(HalveTimes(rate0, 3))
        /\ FLess(current_rate, rate0)
        /\ raised = "none" /\ pc \in {"comments", "report", "done"}
        /\ LET post == all_posts[idx]
               rows == parse_comments(CommentsResponse(post, comment_limit), post.uuid)
           IN /\ Len(all_comments) >= Len(rows)
              /\ SubSeq(all_comments, Len(all_comments) - Len(rows) + 1,
                        Len(all_comments)) = rows

C8_Witness ==
    ThreeTimes429ThenOk /\ pc = "done" /\ all_comments # <<>>

\* C9: when a fetch call fails, the exception it raises to its caller is the
\* HTTP or network error met by its last attempt.
C9_LastErrorSurfaced ==
    (~in_call /\ last_outcome \in Failures) => error = ErrorMet(last_outcome)

\* C10: every comment the server holds for a processed post (at most
\* comment_limit + 1 here, well under 500) has its row in the result.
C10_AllCommentsFetched ==
    ~malformed => \A i \in 1..idx :
        \A k \in 1..HeldCount(all_posts[i]) :
            \E r \in 1..Len(all_comments) :
                /\ all_comments[r].post_link = all_posts[i].uuid
                /\ all_comments[r].comment = [marker |-> FALSE,
                                              text |-> <<all_posts[i].uuid, k, 0>>]

\* The non-null entries of a comment's replies, in their order.
NonNullReplies(c) ==
    IF c.replies.null THEN <<>>
    ELSE SelectSeq(c.replies.items, LAMBDA e : ~e.null)

\* Rows owed to the comments before comment k: 1 + R for each.
RECURSIVE RowsBefore(_, _)
RowsBefore(cs, k) ==
    IF k = 1 THEN 0
    ELSE RowsBefore(cs, k - 1) + 1 + Len(NonNullReplies(cs[k - 1]))

\* C11: parse_comments emits, comment after comment in payload order, the
\* comment's own row (no marker) followed at once by one row per non-null
\* reply, in the replies' order and with the reply marker; nothing else is
\* emitted, so a comment with R non-null replies has exactly 1 + R rows.
C11_OneRowPerCommentAndReply ==
    pc = "normalized" =>
        /\ Len(all_comments) = RowsBefore(comments, Len(comments) + 1)
        /\ \A k \in 1..Len(comments) :
            LET base == RowsBefore(comments, k)
                rs == NonNullReplies(comments[k])
            IN /\ all_comments[base + 1] =
                     [comment |-> [marker |-> FALSE, text |-> comments[k].text],
                      post_link |-> S[1].uuid]
               /\ \A j \in 1..Len(rs) :
                     all_comments[base + 1 + j] =
                         [comment |-> [marker |-> TRUE, text |-> rs[j].text],
                          post_link |-> S[1].uuid]

C11_Witness ==
    /\ pc = "normalized"
    /\ Len(comments) = 2
    /\ ~comments[1].replies.null
    /\ Len(comments[1].replies.items) = 2
    /\ comments[1].replies.items[1].null
    /\ ~comments[1].replies.items[2].null
    /\ Len(all_comments) >= 3

\* The sort of line 156 has run.
AfterSort ==
    \/ pc \in {"comments", "report", "done"}
    \/ pc = "crashed" /\ comment_requests # <<>>

\* C12: the posts processed for comments are ordered by created_at in the
\* requested direction, and posts of equal created_at keep their fetch order
\* (posts are fetched in the order of S, where the uuid is the position).
C12_SortedAndStable ==
    AfterSort =>
        \A i, j \in 1..Len(all_posts) :
            i < j =>
                /\ IF order = "Most Recent"
                   THEN all_posts[i].created_at >= all_posts[j].created_at
                   ELSE all_posts[i].created_at <= all_posts[j].created_at
                /\ all_posts[i].created_at = all_posts[j].created_at
                       => all_posts[i].uuid < all_posts[j].uuid

C12_Witness ==
    /\ AfterSort /\ order = "Most Recent"
    /\ Len(all_posts) = 3
    /\ all_posts[1].uuid # 1
    /\ \E i, j \in 1..3 :
          i < j /\ all_posts[i].created_at = all_posts[j].created_at

\* C13: a run that yields zero posts does not end with the "no comments
\* found" status: it ends with a status of its own ("no posts found").
C13_NoPostsReported ==
    (pc = "done" /\ all_posts = <<>>) => shown # <<NoCommentsFound>>

\* C14: a 2xx response of unexpected shape does not abort the run: when the
\* run has ended after such a response (and no fetch call has failed), no
\* exception has escaped and every post of the processing order has had its
\* comments requested.
C14_MalformedResponseNonFatal ==
    (RunEnded /\ malformed /\ error = "none") =>
        /\ raised = "none"
        /\ comment_requests = [i \in 1..Len(all_posts) |-> all_posts[i].uuid]

\* C15: with an empty user id nothing of the pipeline runs: no posts page
\* and no comments are ever requested (no attempt is made at all).
C15_EmptyUserIdNoRequest ==
    user_id = "" =>
        /\ pc \in {"start", "idle"}
        /\ page_requests = <<>> /\ comment_requests = <<>>
        /\ attempt = 0 /\ last_outcome = "none"

C15_Witness ==
    user_id = "" /\ pc = "idle"

\* C16: every attempt (every step taken while a fetch is due) starts with a
\* wait() of its own, which reads current_rate at that time and sleeps until
\* at least 1/current_rate has passed since the previous wait() returned,
\* plus a jitter of at most 0.1 s.
C16_WaitBeforeEveryAttempt ==
    [][(pc \in {"posts", "comments"}) =>
           (LET w == last_wait'
            IN  /\ w.interval = Interval(current_rate)
                /\ w.first = FirstCall
                /\ w.slept >= 0
                /\ w.since + w.slept >= w.interval
                /\ w.slept <= Max(0, w.interval - w.since) + jitter)]_vars

\* A wait() that had to sleep: less than 1/current_rate had passed since the
\* previous wait() returned.
C16_Witness ==
    /\ attempt >= 1 /\ ~last_wait.first
    /\ last_wait.since > 0 /\ last_wait.since < last_wait.interval
    /\ last_wait.slept = last_wait.interval - last_wait.since + jitter

\* C17: a fetch call makes at most 5 attempts whatever the failures are, a
\* further attempt is due only after fewer than 5, and a call whose 5
\* attempts all ended with HTTP 429 has failed with the HTTP error, the rate
\* being the rate at the start of the call halved five times.
C17_AtMostFiveAttempts ==
    /\ attempt <= stop_after_attempt
    /\ in_call => attempt < stop_after_attempt
    /\ n429 = stop_after_attempt =>
        /\ ~in_call /\ attempt = stop_after_attempt
        /\ last_outcome = "http429" /\ error = "HTTPError"
        /\ posts_failed \/ raised = "HTTPError"
        /\ current_rate = HalveTimes(rate0, stop_after_attempt)
        /\ FLess(current_rate, rate0)

C17_Witness == n429 = stop_after_attempt /\ ~in_call /\ posts_failed

\* C18: every attempt changes the rate by its outcome only: a returned
\* payload raises it once, an HTTP 429 lowers it once, and any other failure
\* (challenge, network error, other HTTP error, 2xx body that is not JSON)
\* leaves it as it was.
C18_RateFollowsOutcome ==
    [][(pc \in {"posts", "comments"}) =>
           (current_rate' =
                CASE last_outcome' \in OkShapes -> increase_rate(current_rate)
                  [] last_outcome' = "http429" -> decrease_rate(current_rate)
                  [] OTHER -> current_rate)]_vars

\* Page fetches that have ended (the last one is still being retried while
\* in_call holds during the posts phase).
PagesEnded ==
    Len(page_requests) - (IF pc = "posts" /\ in_call THEN 1 ELSE 0)

\* C19: the posts phase makes at most ceil(num_posts / batch_size) page
\* fetches, and a page fetch is due only while fewer than num_posts posts
\* have been yielded and every page received so far was a full one.
C19_PageFetchesBounded ==
    /\ Len(page_requests) * batch_size < num_posts + batch_size
    /\ \A i \in 1..Len(page_requests) : page_requests[i] = (i - 1) * batch_size
    /\ pc = "posts" =>
        /\ total_fetched < num_posts
        /\ total_fetched = PagesEnded * batch_size
        /\ ~posts_failed

\* Two page fetches were made for a limit of 3 and the phase has ended.
C19_Witness ==
    /\ pc \notin {"start", "posts"}
    /\ Len(page_requests) = 2 /\ total_fetched = num_posts
    /\ num_posts > batch_size
====
